---- MODULE Spec2Model ----
(***************************************************************************)
(* skulk: the MCP connection manager (src/src/manager.rs), the single      *)
(* server connection (src/src/connection.rs) and the stdio transport       *)
(* (src/src/transport.rs), as a state machine.                             *)
(*                                                                         *)
(* Callers are tasks.  A task runs one operation at a time; an operation   *)
(* is cut at the places where the code can be interleaved with another     *)
(* caller: every .await on the transport mutex or on transport I/O, and    *)
(* every separate acquisition of one of the manager's three RwLocks.       *)
(***************************************************************************)
EXTENDS Integers, Sequences, FiniteSets, TLC

\* ------------------------------------------------------------------ bounds
\* McpConnection objects constructed in a run, operations started in a run
MaxConns == 2
MaxOps == 2

\* two concurrent callers
Tasks == {1, 2}
Conns == 1..MaxConns

\* ------------------------------------------------------- inputs, constants
ServerIds == {"s1", "s2"}
ToolNames == {"add", "echo"}
\* tool catalogs a server may answer tools/list with
Catalogs == {{"add"}, {"add", "echo"}}
\* warhorn::McpTransport variants of a configuration (Socket is refused by
\* create_transport exactly as Http is)
TransportKinds == {"Stdio", "Http"}
\* ServerHealth
HealthValues == {"Healthy", "Unhealthy", "Disconnected", "Unknown"}
\* McpError variants the modelled code produces
Errors == {"ServerNotFound", "NotConnected", "TransportError", "ProtocolError",
           "RpcError", "ToolError"}

VARIABLES
    connections,  \* McpManager.connections: server id -> connection object
    tool_cache,   \* McpManager.tool_cache: server id -> catalog
    health,       \* McpManager.health: server id -> ServerHealth
    conn,         \* the McpConnection objects
    nconn,        \* how many McpConnection objects were constructed so far
    held,         \* connections the application built itself and keeps
    task,         \* each caller: the operation it runs and where it stands
    nops,         \* operations started so far
    response      \* a reply line whose members are looked at, and what came of it

vars == <<connections, tool_cache, health, conn, nconn, held, task, nops, response>>

\* ------------------------------------------------------------ HashMap
EmptyMap == [k \in {} |-> k]
Has(m, k) == k \in DOMAIN m
Insert(m, k, v) == [x \in (DOMAIN m) \cup {k} |-> IF x = k THEN v ELSE m[x]]
Remove(m, k) == [x \in (DOMAIN m) \ {k} |-> m[x]]
Values(m) == {m[k] : k \in DOMAIN m}

\* ------------------------------------------------------------ transport
\* The Option<Box<dyn McpTransport>> slot.  sent: how many frames have been
\* written to the child's stdin; initialized: the initialize exchange was
\* answered with a well-formed ServerInfo over this transport; pipe: the
\* child's stdout, the ids of the requests whose reply lines the server has
\* written and nobody has read yet, oldest first.  The server answers each
\* request it is given with one line, in the order given, and writes
\* nothing else.
NoTransport == [some |-> FALSE, sent |-> 0, initialized |-> FALSE, pipe |-> <<>>]
NewTransport == [some |-> TRUE, sent |-> 0, initialized |-> FALSE, pipe |-> <<>>]
\* stdout.read_line: the next line of the child's stdout (transport.rs:105-109)
NextLine(tr) == Head(tr.pipe)

\* create_transport: only the stdio variant is implemented, and spawning the
\* child may fail.
CreateTransport(kind, spawned) ==
    IF kind = "Stdio" /\ spawned THEN "Ok" ELSE "TransportError"

\* a close that would hand a failed kill on to its caller
MutCloseReportsKill(killed) == IF killed THEN "Ok" ELSE "TransportError"
\* StdioTransport::close: the result of kill is dropped (transport.rs:133-137)
StdioClose(killed) == "Ok"

\* ------------------------------------------------------------ connection
\* McpConnection::new; live: the object exists (some Arc or owner refers to
\* it); lock: the task holding the transport mutex, 0 when free;
\* shutdown_called: shutdown() was invoked on the object at least once;
\* listed: the catalogs its list_tools has returned; wrote: the highest id
\* of the requests written to its transports, -1 before the first (the code
\* keeps no such fields; they are history, read by nothing but properties).
FreshConn(id, kind) ==
    [live |-> TRUE, id |-> id, kind |-> kind, transport |-> NoTransport,
     connected |-> FALSE, server_info |-> FALSE, request_id |-> 0,
     lock |-> 0, shutdown_called |-> FALSE, listed |-> {}, wrote |-> -1]
\* the slot of an object not constructed yet, or dropped
NoConn ==
    [live |-> FALSE, id |-> "s1", kind |-> "Stdio", transport |-> NoTransport,
     connected |-> FALSE, server_info |-> FALSE, request_id |-> 0,
     lock |-> 0, shutdown_called |-> FALSE, listed |-> {}, wrote |-> -1]

\* ------------------------------------------------------------ replies
\* A reply line as serde_json parses it.  Its "error" member is absent, null,
\* or an object with a code and a message; its "result" member is absent or
\* an object whose "error" and "content" members are absent or present.
ErrorMembers ==
    {[kind |-> k, code |-> 0, message |-> ""] : k \in {"absent", "null"}}
    \cup {[kind |-> "object", code |-> c, message |-> m] :
             c \in {-32601, -32000}, m \in {"method not found", "server error"}}
ResultMembers ==
    {[kind |-> "absent", error |-> "absent", content |-> "absent"]}
    \cup {[kind |-> "object", error |-> e, content |-> ct] :
             e \in {"absent", "null", "boom"}, ct \in {"absent", "text", "image"}}
JsonReplies == [error : ErrorMembers, result : ResultMembers]
NoJson ==
    [error |-> [kind |-> "absent", code |-> 0, message |-> ""],
     result |-> [kind |-> "absent", error |-> "absent", content |-> "absent"]]
NoOut == [code |-> 0, message |-> "", content |-> "none"]
\* to: the caller the line was read for, 0 while no line is looked at member
\* by member; json: the line; out: the code, message or content returned
NoReply == [to |-> 0, json |-> NoJson, out |-> NoOut]

\* send_request on the parsed reply: response.get("error") is Some for any
\* "error" member, null included; code and message fall back to -1 and
\* "Unknown error"; otherwise response["result"] (connection.rs:173-181)
HasRpcError(j) == j.error.kind # "absent"
RpcErrorOf(j) ==
    [code |-> IF j.error.kind = "object" THEN j.error.code ELSE -1,
     message |-> IF j.error.kind = "object" THEN j.error.message ELSE "Unknown error",
     content |-> "none"]
\* call_tool on the result: response.get("error") again, then
\* response["content"], null when there is none (connection.rs:109-113)
HasToolError(j) == j.result.kind = "object" /\ j.result.error # "absent"
ContentOf(j) ==
    [code |-> 0, message |-> "",
     content |-> IF j.result.kind = "object" /\ j.result.content # "absent"
                 THEN j.result.content ELSE "null"]
\* the reply as the status and body the callers of send_request tell apart
Classify(j) ==
    [status |-> IF HasRpcError(j) THEN "error" ELSE "result",
     body |-> IF HasRpcError(j) THEN "none"
              ELSE IF HasToolError(j) THEN "tool_error" ELSE "content"]
CallToolOut(j) ==
    IF HasRpcError(j) THEN RpcErrorOf(j)
    ELSE IF HasToolError(j) THEN [NoOut EXCEPT !.message = j.result.error]
    ELSE ContentOf(j)

\* ------------------------------------------------------------ tasks
\* pc: where the caller stands in op; sid, tool: the operation's arguments;
\* c: the connection it holds an Arc of (0: none); meth, rid: the method and
\* id of the request it is sending; res, val, found: what the operation
\* returned; removed: disconnect's local `connection` was Some; todo: the
\* entries of the connection map a loop over it has still to visit
IdleTask ==
    [pc |-> "idle", op |-> "none", sid |-> "s1", tool |-> "add", c |-> 0,
     meth |-> "none", rid |-> 0, res |-> "none", val |-> {}, found |-> "none",
     removed |-> FALSE, todo |-> {}]

\* The guard of self.connections.read() in the head of a for loop lives until
\* the loop ends (manager.rs:139, 148): the callers inside such a loop hold
\* the read lock of the connection map, and a writer waits for them.
ReadGuards(tk) ==
    {t \in Tasks : tk[t].pc \notin {"idle", "done"}
                   /\ tk[t].op \in {"health_check", "notify_all"}}
ConnectionsWritable == ReadGuards(task) = {}

\* An Arc<McpConnection> is dropped with its last reference: the map, a task
\* using it, or the application's own handle.  Dropping the object drops the
\* transport (kill_on_drop).
Referenced(c, cs, tk, hd) ==
    \/ c \in Values(cs)
    \/ c \in hd
    \/ \E t \in Tasks : tk[t].c = c
Sweep(cn, cs, tk, hd) ==
    [c \in Conns |-> IF cn[c].live /\ ~Referenced(c, cs, tk, hd) THEN NoConn ELSE cn[c]]

\* the connections another caller can get hold of: through get_connection, or
\* because the application shares a connection it built
Reachable == Values(connections) \cup held

\* The runs start from the registry as McpManager::new leaves it (InitNew),
\* or from one of two states it reaches in one operation, with the count of
\* operations at zero: one server connected by connect (InitConnected), or a
\* connection built by the application and not yet initialized (InitCreated).
\* ConnectedReached and CreatedReached are those states as InitNew reaches
\* them.
ReadyConn(id, tools) ==
    [FreshConn(id, "Stdio") EXCEPT
        !.transport = [some |-> TRUE, initialized |-> TRUE,
                       sent |-> 3, pipe |-> <<>>],
        !.connected = TRUE, !.server_info = TRUE, !.request_id = 2,
        !.listed = {tools}, !.wrote = 1]
InitNew ==
    /\ connections = EmptyMap
    /\ tool_cache = EmptyMap
    /\ health = EmptyMap
    /\ conn = [c \in Conns |-> NoConn]
    /\ nconn = 0
    /\ held = {}
    /\ task = [t \in Tasks |-> IdleTask]
    /\ nops = 0
    /\ response = NoReply
InitConnected ==
    /\ connections = Insert(EmptyMap, "s1", 1)
    /\ tool_cache = Insert(EmptyMap, "s1", {"add"})
    /\ health = Insert(EmptyMap, "s1", "Healthy")
    /\ conn = [c \in Conns |-> IF c = 1 THEN ReadyConn("s1", {"add"}) ELSE NoConn]
    /\ nconn = 1
    /\ held = {}
    /\ task = [t \in Tasks |-> IdleTask]
    /\ nops = 0
    /\ response = NoReply
InitCreated ==
    /\ connections = EmptyMap
    /\ tool_cache = EmptyMap
    /\ health = EmptyMap
    /\ conn = [c \in Conns |-> IF c = 1 THEN FreshConn("s1", "Stdio") ELSE NoConn]
    /\ nconn = 1
    /\ held = {1}
    /\ task = [t \in Tasks |-> IdleTask]
    /\ nops = 0
    /\ response = NoReply
Init == InitNew \/ InitConnected \/ InitCreated

\* two servers connected by two connects, "s1" listing one tool and "s2" two
InitTwo ==
    /\ connections = Insert(Insert(EmptyMap, "s1", 1), "s2", 2)
    /\ tool_cache = Insert(Insert(EmptyMap, "s1", {"add"}), "s2", {"add", "echo"})
    /\ health = Insert(Insert(EmptyMap, "s1", "Healthy"), "s2", "Healthy")
    /\ conn = [c \in Conns |-> IF c = 1 THEN ReadyConn("s1", {"add"})
                               ELSE IF c = 2 THEN ReadyConn("s2", {"add", "echo"}) ELSE NoConn]
    /\ nconn = 2
    /\ held = {}
    /\ task = [t \in Tasks |-> IdleTask]
    /\ nops = 0
    /\ response = NoReply

\* ------------------------------------------------------ calls and returns
\* The operators below take and give the pair S of the connection objects and
\* the callers, [conn |-> ..., task |-> ...], as caller t's code changes it.
Here == [conn |-> conn, task |-> task]

\* the operation of t is over: its result is res (and val), its locals are
\* dropped
Done(S, t, res, val) ==
    [S EXCEPT !.task[t].pc = "done", !.task[t].c = 0, !.task[t].meth = "none",
              !.task[t].rid = 0, !.task[t].res = res, !.task[t].val = val]

\* a send_request that would read the counter without advancing it
MutSendRequestLoadsId(S, t, meth) ==
    [S EXCEPT !.task[t].pc = "sr_send", !.task[t].meth = meth,
              !.task[t].rid = S.conn[S.task[t].c].request_id]
\* send_request, up to the await of the transport lock: the id is taken with
\* self.request_id.fetch_add(1) and the frame is built (connection.rs:158-165)
SendRequest(S, t, meth) ==
    LET c == S.task[t].c IN
    [S EXCEPT !.conn[c].request_id = @ + 1,
              !.task[t].pc = "sr_send", !.task[t].meth = meth,
              !.task[t].rid = S.conn[c].request_id]

\* send_notification, up to the await of the transport lock: the frame is
\* built, no id is taken (connection.rs:190-194)
SendNotification(S, t, meth) ==
    [S EXCEPT !.task[t].pc = "sn_send", !.task[t].meth = meth, !.task[t].rid = 0]

\* shutdown, up to the await of the transport lock:
\* self.connected.store(false) (connection.rs:142)
BeginShutdown(S, t) ==
    LET c == S.task[t].c IN
    [S EXCEPT !.conn[c].connected = FALSE, !.conn[c].shutdown_called = TRUE,
              !.task[t].pc = "sh_take"]

\* McpConnection::initialize returned res to its caller: connect goes on to
\* tool discovery only on Ok ("?" at manager.rs:43, list_tools at
\* manager.rs:46 and connection.rs:80)
AfterInitialize(S, t, res) ==
    IF S.task[t].op = "connect" /\ res = "Ok"
    THEN SendRequest(S, t, "tools/list")
    ELSE Done(S, t, res, {})

\* a connect that would go on to its inserts whatever list_tools returned
MutStoreWhateverListed(S, t, res, val) ==
    IF S.task[t].op = "connect"
    THEN [S EXCEPT !.task[t].pc = "connect_conns", !.task[t].meth = "none",
                   !.task[t].rid = 0, !.task[t].val = val]
    ELSE IF S.task[t].op = "refresh_tools" /\ res = "Ok"
    THEN [S EXCEPT !.task[t].pc = "refresh_cache", !.task[t].meth = "none",
                   !.task[t].rid = 0, !.task[t].val = val]
    ELSE Done(S, t, res, val)
\* McpConnection::list_tools returned res (and the catalog val): connect and
\* refresh_tools store the catalog only on Ok ("?" at manager.rs:46 and 130)
AfterListTools(S, t, res, val) ==
    IF S.task[t].op = "connect" /\ res = "Ok"
    THEN [S EXCEPT !.task[t].pc = "connect_conns", !.task[t].meth = "none",
                   !.task[t].rid = 0, !.task[t].val = val]
    ELSE IF S.task[t].op = "refresh_tools" /\ res = "Ok"
    THEN [S EXCEPT !.task[t].pc = "refresh_cache", !.task[t].meth = "none",
                   !.task[t].rid = 0, !.task[t].val = val]
    ELSE Done(S, t, res, val)

\* the replies a server (or the pipe) can give to a request of a method
Bodies(meth) ==
    CASE meth = "initialize" -> {"info", "bad_info"}
      [] meth = "tools/list" -> Catalogs
      [] meth = "tools/call" -> {"content", "tool_error"}
      [] OTHER -> {"pong"}
NoBody(meth) == IF meth = "tools/list" THEN {} ELSE "none"
Replies(meth) ==
    {[status |-> st, body |-> NoBody(meth)] : st \in {"read_error", "bad_json", "error"}}
    \cup {[status |-> "result", body |-> b] : b \in Bodies(meth)}

\* StdioTransport::send_request after the write (transport.rs:104-115) and
\* McpConnection::send_request on its reply (connection.rs:173-181): a read
\* failure, an unparsable line, an error object, a result
SendRequestResult(reply) ==
    CASE reply.status = "read_error" -> "TransportError"
      [] reply.status = "bad_json" -> "ProtocolError"
      [] reply.status = "error" -> "RpcError"
      [] OTHER -> "Ok"

\* what the caller of send_request makes of a result body: initialize parses
\* a ServerInfo (connection.rs:60-61), call_tool looks for an embedded error
\* (connection.rs:109-111)
CallerResult(meth, body) ==
    CASE meth = "initialize" /\ body = "bad_info" -> "ProtocolError"
      [] meth = "tools/call" /\ body = "tool_error" -> "ToolError"
      [] OTHER -> "Ok"

ReplyResult(meth, reply) ==
    IF SendRequestResult(reply) = "Ok" THEN CallerResult(meth, reply.body)
    ELSE SendRequestResult(reply)
ReplyValue(meth, reply) ==
    IF meth = "tools/list" /\ reply.status = "result" THEN reply.body ELSE {}

\* list_tools returned: on Ok the catalog is one the connection has listed
\* (connection.rs:79-93)
Listed(S, t, res, val) ==
    IF res = "Ok" THEN [S EXCEPT !.conn[S.task[t].c].listed = @ \cup {val}] ELSE S

\* send_request (and the parse of its result) returned res to the method
\* that called it
AfterSendRequest(S, t, res, val) ==
    CASE S.task[t].meth = "initialize" ->
            IF res = "Ok" THEN [S EXCEPT !.task[t].pc = "init_ready", !.task[t].rid = 0]
            ELSE AfterInitialize(S, t, res)
      [] S.task[t].meth = "tools/list" -> AfterListTools(Listed(S, t, res, val), t, res, val)
      [] S.task[t].op = "health_check" ->
            [S EXCEPT !.task[t].pc = "hc_write", !.task[t].c = 0,
                      !.task[t].meth = "none", !.task[t].rid = 0, !.task[t].res = res]
      [] OTHER -> Done(S, t, res, val)

\* an initialize that would undo its stores when the notification fails
MutInitializedRollsBack(S, t, res) ==
    IF S.task[t].meth = "notifications/initialized"
    THEN AfterInitialize(
             IF res = "Ok" THEN S
             ELSE [S EXCEPT !.conn[S.task[t].c].connected = FALSE,
                            !.conn[S.task[t].c].server_info = FALSE],
             t, res)
    ELSE Done(S, t, res, {})
\* send_notification returned res: initialize returns it ("?" at
\* connection.rs:67), notify_sandbox_state returns it
AfterSendNotification(S, t, res) ==
    IF S.task[t].meth = "notifications/initialized" THEN AfterInitialize(S, t, res)
    ELSE Done(S, t, res, {})

\* McpManager::notify_sandbox_state: the loop comes to the entry of server s
\* and begins the notification on its connection (manager.rs:139-140)
Deliver(S, t, s) ==
    SendNotification([S EXCEPT !.task[t].sid = s, !.task[t].c = connections[s]],
                     t, "notifications/sandbox_state")

\* McpManager::notify_sandbox_state: the entry is done with; the loop goes to
\* one of the entries left, in the map's order, or ends and lets the read
\* guard go (manager.rs:139-144)
NotifyNext(S, t) ==
    LET left == S.task[t].todo \ {S.task[t].sid}
        S1 == [S EXCEPT !.task[t].todo = left] IN
    IF left = {} THEN {Done(S1, t, "Ok", {})}
    ELSE {Deliver(S1, t, s) : s \in left}

\* a broadcast that would give up at the first failure
MutNotifyAborts(S, t, res) ==
    IF res = "Ok" THEN NotifyNext(S, t) ELSE {Done(S, t, res, {})}
\* McpManager::notify_sandbox_state: a failure of one delivery is logged and
\* the loop goes on (manager.rs:140-142)
NotifyDelivered(S, t, res) == NotifyNext(S, t)

\* what follows the return of send_notification
NotificationReturns(S, t, res) ==
    IF S.task[t].op = "notify_all" THEN NotifyDelivered(S, t, res)
    ELSE {AfterSendNotification(S, t, res)}

\* McpConnection::shutdown returned res: disconnect goes on to the cache and
\* health maps only on Ok ("?" at manager.rs:62); its Arc is dropped
AfterShutdown(S, t, res) ==
    IF S.task[t].op = "disconnect" /\ res = "Ok"
    THEN [S EXCEPT !.task[t].pc = "disc_cache", !.task[t].c = 0]
    ELSE Done(S, t, res, {})

\* a caller that is free starts an operation; callers are alike, so the
\* first free one takes it
CanStart(t) ==
    /\ task[t].pc \in {"idle", "done"}
    /\ \A u \in Tasks : u < t => task[u].pc \notin {"idle", "done"}
    /\ nops < MaxOps
\* what earlier operations returned is gone once a new operation starts
Begin(S, t, op, sid, c) ==
    [S EXCEPT !.task =
        [u \in Tasks |->
            IF u = t
            THEN [IdleTask EXCEPT !.pc = "begin", !.op = op, !.sid = sid, !.c = c]
            ELSE IF S.task[u].pc = "done" THEN IdleTask ELSE S.task[u]]]

\* every action ends by dropping the connection objects nothing refers to
\* any more
Commit(S, cs, hd) ==
    /\ connections' = cs
    /\ held' = hd
    /\ task' = S.task
    /\ conn' = Sweep(S.conn, cs, S.task, hd)

\* ------------------------------------------------- McpManager operations
\* connect, up to the await in initialize: McpConnection::new and Arc::new
\* (manager.rs:35-43)
Connect(t, sid, kind) ==
    /\ CanStart(t)
    /\ nconn < MaxConns
    /\ nconn' = nconn + 1
    /\ nops' = nops + 1
    /\ LET c == nconn + 1
           S1 == [Here EXCEPT !.conn[c] = FreshConn(sid, kind)]
           S2 == Begin(S1, t, "connect", sid, c) IN
       Commit([S2 EXCEPT !.task[t].pc = "init_create"], connections, held)
    /\ UNCHANGED <<response, tool_cache, health>>

\* connect: self.connections.write().insert (manager.rs:49); the Arc moves
\* into the map, the entry it replaces is dropped
ConnectConns(t) ==
    /\ task[t].pc = "connect_conns"
    /\ ConnectionsWritable
    /\ Commit([Here EXCEPT !.task[t].pc = "connect_cache", !.task[t].c = 0],
              Insert(connections, task[t].sid, task[t].c), held)
    /\ UNCHANGED <<response, tool_cache, health, nconn, nops>>

\* connect: self.tool_cache.write().insert (manager.rs:50)
ConnectCache(t) ==
    /\ task[t].pc = "connect_cache"
    /\ tool_cache' = Insert(tool_cache, task[t].sid, task[t].val)
    /\ task' = [task EXCEPT ![t].pc = "connect_health"]
    /\ UNCHANGED <<response, connections, health, conn, nconn, held, nops>>

\* connect: self.health.write().insert, Ok(()) (manager.rs:51-54)
ConnectHealth(t) ==
    /\ task[t].pc = "connect_health"
    /\ health' = Insert(health, task[t].sid, "Healthy")
    /\ Commit(Done(Here, t, "Ok", {}), connections, held)
    /\ UNCHANGED <<response, tool_cache, nconn, nops>>

\* a disconnect that would answer ServerNotFound for an id the map lacks
MutDisconnectUnknownFails(S, t, cs) ==
    IF Has(cs, S.task[t].sid)
    THEN BeginShutdown([S EXCEPT !.task[t].c = cs[S.task[t].sid],
                                 !.task[t].removed = TRUE], t)
    ELSE Done(S, t, "ServerNotFound", {})
\* disconnect: what self.connections.write().remove(server_id) gave decides
\* whether the connection is shut down (manager.rs:59-63)
DisconnectRemoved(S, t, cs) ==
    IF Has(cs, S.task[t].sid)
    THEN BeginShutdown([S EXCEPT !.task[t].c = cs[S.task[t].sid],
                                 !.task[t].removed = TRUE], t)
    ELSE [S EXCEPT !.task[t].pc = "disc_cache"]

Disconnect(t, sid) ==
    /\ CanStart(t)
    /\ ConnectionsWritable
    /\ nops' = nops + 1
    /\ Commit(DisconnectRemoved(Begin(Here, t, "disconnect", sid, 0), t, connections),
              Remove(connections, sid), held)
    /\ UNCHANGED <<response, tool_cache, health, nconn>>

\* a disconnect that would leave the cache entry
MutCacheKept(m, sid) == m
\* disconnect: self.tool_cache.write().remove(server_id) (manager.rs:65)
DisconnectCacheRemove(m, sid) == Remove(m, sid)

DiscCache(t) ==
    /\ task[t].pc = "disc_cache"
    /\ tool_cache' = DisconnectCacheRemove(tool_cache, task[t].sid)
    /\ task' = [task EXCEPT ![t].pc = "disc_health"]
    /\ UNCHANGED <<response, connections, health, conn, nconn, held, nops>>

\* disconnect: self.health.write().remove(server_id), Ok(()) (manager.rs:66-69)
DiscHealth(t) ==
    /\ task[t].pc = "disc_health"
    /\ health' = Remove(health, task[t].sid)
    /\ Commit(Done(Here, t, "Ok", {}), connections, held)
    /\ UNCHANGED <<response, tool_cache, nconn, nops>>

\* refresh_tools: get_connection, ServerNotFound when absent, list_tools
\* otherwise (manager.rs:127-130, 73-75)
RefreshTools(t, sid) ==
    /\ CanStart(t)
    /\ nops' = nops + 1
    /\ IF Has(connections, sid)
       THEN Commit(SendRequest(Begin(Here, t, "refresh_tools", sid, connections[sid]),
                               t, "tools/list"),
                   connections, held)
       ELSE Commit(Done(Begin(Here, t, "refresh_tools", sid, 0), t, "ServerNotFound", {}),
                   connections, held)
    /\ UNCHANGED <<response, tool_cache, health, nconn>>

\* a refresh that would add the listed tools to those already cached
MutRefreshMerges(cache, sid, tools) ==
    Insert(cache, sid, IF Has(cache, sid) THEN cache[sid] \cup tools ELSE tools)
\* refresh_tools: the insert replaces the entry (manager.rs:131)
RefreshInsert(cache, sid, tools) == Insert(cache, sid, tools)

\* refresh_tools: self.tool_cache.write().insert, Ok(tools) (manager.rs:131-134)
RefreshCache(t) ==
    /\ task[t].pc = "refresh_cache"
    /\ tool_cache' = RefreshInsert(tool_cache, task[t].sid, task[t].val)
    /\ Commit(Done(Here, t, "Ok", task[t].val), connections, held)
    /\ UNCHANGED <<response, health, nconn, nops>>

\* find_tool: the first entry of the cache, in the map's iteration order,
\* that has a tool of that name (manager.rs:97-105)
FindToolResults(cache, name) ==
    IF \E s \in DOMAIN cache : name \in cache[s]
    THEN {s \in DOMAIN cache : name \in cache[s]}
    ELSE {"none"}

FindTool(t, name) ==
    /\ CanStart(t)
    /\ nops' = nops + 1
    /\ \E s \in FindToolResults(tool_cache, name) :
          LET S1 == Done(Begin(Here, t, "find_tool", "s1", 0), t, "Ok", {}) IN
          Commit([S1 EXCEPT !.task[t].tool = name, !.task[t].found = s], connections, held)
    /\ UNCHANGED <<response, tool_cache, health, nconn>>

\* health_check: the status of a server from what its connection reported
\* and what its ping returned; res is "none" when no ping was sent
\* (manager.rs:149-156)
MutPingFailureHealthy(res) ==
    IF res = "none" THEN "Disconnected" ELSE "Healthy"
HealthStatus(res) ==
    CASE res = "none" -> "Disconnected"
      [] res = "Ok" -> "Healthy"
      [] OTHER -> "Unhealthy"

\* health_check: the loop comes to the entry of server s: is_connected is
\* loaded; when true a ping is begun, when false the status is at hand
\* (manager.rs:148-150, connection.rs:125-133)
Probe(S, t, s) ==
    LET c == connections[s]
        S1 == [S EXCEPT !.task[t].sid = s, !.task[t].c = c] IN
    IF S.conn[c].connected
    THEN SendRequest(S1, t, "ping")
    ELSE [S1 EXCEPT !.task[t].pc = "hc_write", !.task[t].c = 0, !.task[t].res = "none"]

\* health_check: the read guard of the connection map is taken and the loop
\* comes to its first entry; with no entry the operation is over
\* (manager.rs:147-150)
HealthCheck(t) ==
    /\ CanStart(t)
    /\ nops' = nops + 1
    /\ LET S0 == Begin(Here, t, "health_check", "s1", 0)
           S1 == [S0 EXCEPT !.task[t].todo = DOMAIN connections] IN
       IF connections = EmptyMap
       THEN Commit(Done(S1, t, "Ok", {}), connections, held)
       ELSE \E s \in DOMAIN connections : Commit(Probe(S1, t, s), connections, held)
    /\ UNCHANGED <<response, tool_cache, health, nconn>>

\* health_check: self.health.write().insert(server_id, health); the loop
\* goes to its next entry, or ends and lets the read guard go
\* (manager.rs:158-160)
HcWrite(t) ==
    /\ task[t].pc = "hc_write"
    /\ health' = Insert(health, task[t].sid, HealthStatus(task[t].res))
    /\ LET left == task[t].todo \ {task[t].sid}
           S1 == [Here EXCEPT !.task[t].todo = left] IN
       IF left = {}
       THEN Commit(Done(S1, t, "Ok", {}), connections, held)
       ELSE \E s \in left : Commit(Probe(S1, t, s), connections, held)
    /\ UNCHANGED <<response, tool_cache, nconn, nops>>

\* McpManager::notify_sandbox_state: the read guard of the connection map is
\* taken and the loop comes to its first entry; with no entry the operation
\* is over (manager.rs:138-140)
NotifyAll(t) ==
    /\ CanStart(t)
    /\ nops' = nops + 1
    /\ LET S0 == Begin(Here, t, "notify_all", "s1", 0)
           S1 == [S0 EXCEPT !.task[t].todo = DOMAIN connections] IN
       IF connections = EmptyMap
       THEN Commit(Done(S1, t, "Ok", {}), connections, held)
       ELSE \E s \in DOMAIN connections : Commit(Deliver(S1, t, s), connections, held)
    /\ UNCHANGED <<response, tool_cache, health, nconn>>

\* server_health: the entry of the health map, if any (manager.rs:121-123)
ServerHealth(t, sid) ==
    /\ CanStart(t)
    /\ nops' = nops + 1
    /\ LET S1 == Done(Begin(Here, t, "server_health", sid, 0), t, "Ok", {}) IN
       Commit([S1 EXCEPT !.task[t].found = IF Has(health, sid) THEN health[sid] ELSE "none"],
              connections, held)
    /\ UNCHANGED <<response, tool_cache, health, nconn>>

\* ---------------------------------------------- McpConnection operations
\* McpConnection::new called by the application itself, which keeps the
\* connection and may share it between its tasks (connection.rs:28-36); the
\* id of its configuration plays no part outside the manager
New(t, sid, kind) ==
    /\ CanStart(t)
    /\ nconn < MaxConns
    /\ nconn' = nconn + 1
    /\ nops' = nops + 1
    /\ LET c == nconn + 1
           S1 == [Here EXCEPT !.conn[c] = FreshConn(sid, kind)] IN
       Commit(Done(Begin(S1, t, "new", sid, 0), t, "Ok", {}), connections, held \cup {c})
    /\ UNCHANGED <<response, tool_cache, health>>

\* a caller gets hold of a connection (get_connection, manager.rs:73-75, or
\* the application's own handle) and invokes a public method on it
Called(t, c, op) == Begin(Here, t, op, conn[c].id, c)
CanCall(t, c) == CanStart(t) /\ c \in Reachable

\* initialize, up to create_transport (connection.rs:39-43)
Initialize(t, c) ==
    /\ CanCall(t, c)
    /\ nops' = nops + 1
    /\ Commit([Called(t, c, "initialize") EXCEPT !.task[t].pc = "init_create"],
              connections, held)
    /\ UNCHANGED <<response, tool_cache, health, nconn>>

\* shutdown, up to the await of the transport lock (connection.rs:141-144)
Shutdown(t, c) ==
    /\ CanCall(t, c)
    /\ nops' = nops + 1
    /\ Commit(BeginShutdown(Called(t, c, "shutdown"), t), connections, held)
    /\ UNCHANGED <<response, tool_cache, health, nconn>>

\* list_tools (connection.rs:79-80)
ListTools(t, c) ==
    /\ CanCall(t, c)
    /\ nops' = nops + 1
    /\ Commit(SendRequest(Called(t, c, "list_tools"), t, "tools/list"), connections, held)
    /\ UNCHANGED <<response, tool_cache, health, nconn>>

\* call_tool (connection.rs:96-106)
CallTool(t, c) ==
    /\ CanCall(t, c)
    /\ nops' = nops + 1
    /\ Commit(SendRequest(Called(t, c, "call_tool"), t, "tools/call"), connections, held)
    /\ UNCHANGED <<response, tool_cache, health, nconn>>

\* ping (connection.rs:125-126)
Ping(t, c) ==
    /\ CanCall(t, c)
    /\ nops' = nops + 1
    /\ Commit(SendRequest(Called(t, c, "ping"), t, "ping"), connections, held)
    /\ UNCHANGED <<response, tool_cache, health, nconn>>

\* notify_sandbox_state (connection.rs:117-122)
NotifySandboxState(t, c) ==
    /\ CanCall(t, c)
    /\ nops' = nops + 1
    /\ Commit(SendNotification(Called(t, c, "notify_sandbox_state"), t,
                               "notifications/sandbox_state"),
              connections, held)
    /\ UNCHANGED <<response, tool_cache, health, nconn>>

\* self.transport.lock().await returns: the tokio mutex is free
TransportLockFree(c) == conn[c].lock = 0
\* a send_request that would write without waiting for the lock
MutExchangeUnlocked(c) == TRUE
\* send_request holds the lock from before the write until after the read
\* (connection.rs:167-171)
ExchangeLockFree(c) == TransportLockFree(c)
\* a send_notification that would write without the lock
MutNotificationUnlocked(c) == TRUE
\* send_notification takes the lock as send_request does (connection.rs:196)
NotificationLockFree(c) == TransportLockFree(c)

\* initialize: create_transport; on Ok the slot is filled under the lock and
\* the initialize request is begun (connection.rs:43-57); the transport the
\* slot held is dropped
InitCreate(t) ==
    /\ task[t].pc = "init_create"
    /\ LET c == task[t].c IN
       \E spawned \in BOOLEAN :
          IF CreateTransport(conn[c].kind, spawned) = "Ok"
          THEN /\ TransportLockFree(c)
               /\ Commit(SendRequest([Here EXCEPT !.conn[c].transport = NewTransport],
                                     t, "initialize"),
                         connections, held)
          ELSE Commit(AfterInitialize(Here, t, CreateTransport(conn[c].kind, spawned)),
                      connections, held)
    /\ UNCHANGED <<response, tool_cache, health, nconn, nops>>

Highest(a, b) == IF a < b THEN b ELSE a

\* send_request: the lock is taken; NotConnected when the slot is empty;
\* otherwise the frame is written to the child's stdin, which may fail
\* (connection.rs:167-171, transport.rs:89-102)
SrSend(t) ==
    /\ task[t].pc = "sr_send"
    /\ LET c == task[t].c IN
       /\ ExchangeLockFree(c)
       /\ IF ~conn[c].transport.some
          THEN Commit(AfterSendRequest(Here, t, "NotConnected", {}), connections, held)
          ELSE \E written \in BOOLEAN :
                  IF written
                  THEN Commit([Here EXCEPT
                                  !.conn[c].lock = t,
                                  !.conn[c].transport.sent = @ + 1,
                                  !.conn[c].transport.pipe = Append(@, task[t].rid),
                                  !.conn[c].wrote = Highest(@, task[t].rid),
                                  !.task[t].pc = "sr_recv"],
                              connections, held)
                  ELSE Commit(AfterSendRequest(Here, t, "TransportError", {}),
                              connections, held)
    /\ UNCHANGED <<response, tool_cache, health, nconn, nops>>

\* send_request: the next line of the child's stdout is taken as the reply
\* and the lock is released (connection.rs:171-182, transport.rs:104-116); a
\* well-formed ServerInfo completes the handshake on this transport
SrRecv(t) ==
    /\ task[t].pc = "sr_recv"
    /\ conn[task[t].c].transport.pipe # <<>>
    /\ LET c == task[t].c
           m == task[t].meth IN
       \E reply \in Replies(m) :
          Commit(AfterSendRequest(
                     [Here EXCEPT !.conn[c].lock = 0,
                                  !.conn[c].transport.pipe = Tail(@),
                                  !.conn[c].transport.initialized =
                                      @ \/ (m = "initialize" /\ ReplyResult(m, reply) = "Ok")],
                     t, ReplyResult(m, reply), ReplyValue(m, reply)),
                 connections, held)
    /\ UNCHANGED <<response, tool_cache, health, nconn, nops>>

\* initialize: the ServerInfo is recorded, connected is set and the
\* initialized notification is begun (connection.rs:63-67)
InitReady(t) ==
    /\ task[t].pc = "init_ready"
    /\ LET c == task[t].c IN
       Commit(SendNotification([Here EXCEPT !.conn[c].server_info = TRUE,
                                            !.conn[c].connected = TRUE],
                               t, "notifications/initialized"),
              connections, held)
    /\ UNCHANGED <<response, tool_cache, health, nconn, nops>>

\* send_notification: the lock is taken; NotConnected when the slot is empty;
\* otherwise the frame is written, which may fail (connection.rs:196-201,
\* transport.rs:118-131)
SnSend(t) ==
    /\ task[t].pc = "sn_send"
    /\ LET c == task[t].c IN
       /\ NotificationLockFree(c)
       /\ IF ~conn[c].transport.some
          THEN \E S2 \in NotificationReturns(Here, t, "NotConnected") :
                  Commit(S2, connections, held)
          ELSE \E written \in BOOLEAN :
                  IF written
                  THEN \E S2 \in NotificationReturns(
                                     [Here EXCEPT !.conn[c].transport.sent = @ + 1],
                                     t, "Ok") :
                          Commit(S2, connections, held)
                  ELSE \E S2 \in NotificationReturns(Here, t, "TransportError") :
                          Commit(S2, connections, held)
    /\ UNCHANGED <<response, tool_cache, health, nconn, nops>>

\* shutdown: the transport is taken out of the slot under the lock and
\* closed; kill may fail (connection.rs:144-149, transport.rs:133-137)
ShTake(t) ==
    /\ task[t].pc = "sh_take"
    /\ LET c == task[t].c IN
       /\ TransportLockFree(c)
       /\ IF conn[c].transport.some
          THEN \E killed \in BOOLEAN :
                  Commit(AfterShutdown([Here EXCEPT !.conn[c].transport = NoTransport],
                                       t, StdioClose(killed)),
                         connections, held)
          ELSE Commit(AfterShutdown(Here, t, "Ok"), connections, held)
    /\ UNCHANGED <<response, tool_cache, health, nconn, nops>>

Next ==
    \E t \in Tasks :
        \/ \E sid \in ServerIds, kind \in TransportKinds : Connect(t, sid, kind)
        \/ ConnectConns(t)
        \/ ConnectCache(t)
        \/ ConnectHealth(t)
        \/ \E sid \in ServerIds : Disconnect(t, sid)
        \/ DiscCache(t)
        \/ DiscHealth(t)
        \/ \E sid \in ServerIds : RefreshTools(t, sid)
        \/ RefreshCache(t)
        \/ \E name \in ToolNames : FindTool(t, name)
        \/ HealthCheck(t)
        \/ HcWrite(t)
        \/ NotifyAll(t)
        \/ \E sid \in ServerIds : ServerHealth(t, sid)
        \/ \E kind \in TransportKinds : New(t, "s1", kind)
        \/ \E c \in Conns : Initialize(t, c)
        \/ \E c \in Conns : Shutdown(t, c)
        \/ \E c \in Conns : ListTools(t, c)
        \/ \E c \in Conns : CallTool(t, c)
        \/ \E c \in Conns : Ping(t, c)
        \/ \E c \in Conns : NotifySandboxState(t, c)
        \/ InitCreate(t)
        \/ SrSend(t)
        \/ SrRecv(t)
        \/ InitReady(t)
        \/ SnSend(t)
        \/ ShTake(t)

Spec == Init /\ [][Next]_vars

\* one caller at a time: a caller takes a step only when no other caller has
\* an operation in progress
Busy(t) == task[t].pc \notin {"idle", "done"}
Sequential == \A t \in Tasks : task'[t] # task[t] => \A u \in Tasks \ {t} : ~Busy(u)
SeqNext == Next /\ Sequential
SeqSpec == Init /\ [][SeqNext]_vars

\* A tools/call on a connected server stands at its reply, and the reply is
\* any of JsonReplies: call_tool and send_request as functions of the reply.
ReplyInit ==
    /\ connections = Insert(EmptyMap, "s1", 1)
    /\ tool_cache = Insert(EmptyMap, "s1", {"add"})
    /\ health = Insert(EmptyMap, "s1", "Healthy")
    /\ conn = [c \in Conns |->
                 IF c = 1
                 THEN [ReadyConn("s1", {"add"}) EXCEPT !.lock = 1, !.request_id = 3,
                                                      !.transport.sent = 4, !.wrote = 2,
                                                      !.transport.pipe = <<2>>]
                 ELSE NoConn]
    /\ nconn = 1
    /\ held = {}
    /\ nops = 1
    /\ task = [t \in Tasks |->
                 IF t = 1
                 THEN [IdleTask EXCEPT !.pc = "sr_recv", !.op = "call_tool", !.c = 1,
                                      !.meth = "tools/call", !.rid = 2]
                 ELSE IdleTask]
    /\ \E j \in JsonReplies : response = [NoReply EXCEPT !.to = 1, !.json = j]
\* the reply is handled: send_request's and call_tool's look at its members
\* (connection.rs:171-181, 106-113)
CallToolReply(t) ==
    /\ task[t].pc = "sr_recv"
    /\ task[t].op = "call_tool"
    /\ response.to = t
    /\ LET c == task[t].c IN
       Commit(AfterSendRequest([Here EXCEPT !.conn[c].lock = 0,
                                            !.conn[c].transport.pipe = Tail(@)], t,
                               ReplyResult("tools/call", Classify(response.json)), {}),
              connections, held)
    /\ response' = [response EXCEPT !.out = CallToolOut(response.json)]
    /\ UNCHANGED <<tool_cache, health, nconn, nops>>
ReplyNext == \E t \in Tasks : CallToolReply(t)
ReplySpec == ReplyInit /\ [][ReplyNext]_vars

\* A Registry of two servers whose callers sweep it, read it, refresh it,
\* disconnect from it and shut down connections they got from it.
RegNext ==
    \E t \in Tasks :
        \/ \E sid \in ServerIds : Disconnect(t, sid)
        \/ DiscCache(t)
        \/ DiscHealth(t)
        \/ \E sid \in ServerIds : RefreshTools(t, sid)
        \/ RefreshCache(t)
        \/ HealthCheck(t)
        \/ HcWrite(t)
        \/ NotifyAll(t)
        \/ \E sid \in ServerIds : ServerHealth(t, sid)
        \/ \E c \in Conns : Shutdown(t, c)
        \/ SrSend(t)
        \/ SrRecv(t)
        \/ SnSend(t)
        \/ ShTake(t)
RegSpec == InitTwo /\ [][RegNext]_vars

\* the registry built and nothing else
FromNew == InitNew /\ [][Next]_vars
\* a connection the application built itself, and a registry beside it
FromCreated == InitCreated /\ [][Next]_vars
ConnectedReached ==
    /\ connections = Insert(EmptyMap, "s1", 1)
    /\ tool_cache = Insert(EmptyMap, "s1", {"add"})
    /\ health = Insert(EmptyMap, "s1", "Healthy")
    /\ conn = [c \in Conns |-> IF c = 1 THEN ReadyConn("s1", {"add"}) ELSE NoConn]
    /\ held = {}
    /\ \A t \in Tasks : ~Busy(t)
TwoReached ==
    /\ connections = Insert(Insert(EmptyMap, "s1", 1), "s2", 2)
    /\ tool_cache = Insert(Insert(EmptyMap, "s1", {"add"}), "s2", {"add", "echo"})
    /\ health = Insert(Insert(EmptyMap, "s1", "Healthy"), "s2", "Healthy")
    /\ conn = [c \in Conns |-> IF c = 1 THEN ReadyConn("s1", {"add"})
                               ELSE IF c = 2 THEN ReadyConn("s2", {"add", "echo"}) ELSE NoConn]
    /\ held = {}
    /\ \A t \in Tasks : ~Busy(t)
CreatedReached ==
    /\ connections = EmptyMap /\ tool_cache = EmptyMap /\ health = EmptyMap
    /\ conn = [c \in Conns |-> IF c = 1 THEN FreshConn("s1", "Stdio") ELSE NoConn]
    /\ held = {1}
    /\ \A t \in Tasks : ~Busy(t)

TypeOK ==
    /\ DOMAIN connections \subseteq ServerIds
    /\ \A s \in DOMAIN connections : connections[s] \in Conns /\ conn[connections[s]].live
    /\ DOMAIN tool_cache \subseteq ServerIds
    /\ \A s \in DOMAIN tool_cache : tool_cache[s] \in Catalogs
    /\ DOMAIN health \subseteq ServerIds
    /\ \A s \in DOMAIN health : health[s] \in HealthValues
    /\ nconn \in 0..MaxConns
    /\ nops \in 0..MaxOps
    /\ held \subseteq Conns
    /\ response.to \in {0} \cup Tasks
    /\ response.json \in JsonReplies
    /\ \A c \in Conns : conn[c].lock # 0 =>
          /\ conn[c].lock \in Tasks
          /\ task[conn[c].lock].pc = "sr_recv"
          /\ task[conn[c].lock].c = c
    /\ \A t \in Tasks : Busy(t) /\ task[t].pc \notin
            {"connect_cache", "connect_health", "disc_cache", "disc_health", "hc_write"}
          => task[t].c \in Conns /\ conn[task[t].c].live

\* ================================================================ claims
\* the step taken is one of caller t's own
Acts(t) == task'[t] # task[t]
\* what connect has built is complete: a transport in the slot that has seen
\* the handshake, the ServerInfo, the connected flag
Ready(c) ==
    /\ conn[c].live
    /\ conn[c].transport.some
    /\ conn[c].transport.initialized
    /\ conn[c].server_info
    /\ conn[c].connected
PreInsert == {"init_create", "sr_send", "sr_recv", "init_ready", "sn_send"}
MapsUnchanged == UNCHANGED <<connections, tool_cache, health>>

\* C1: connect is all-or-nothing.  A connect that returns an error has come
\* from a step before its first insert and leaves the three maps as they
\* were; until its first insert the Connection it builds is in no map and in
\* nobody else's hands; and the Connection it inserts is fully initialized,
\* the handshake and the initialized notification written and the catalog
\* one the server listed.
C1_ConnectAllOrNothing ==
    [][\A t \in Tasks :
          task[t].op = "connect" /\ Busy(t) /\ Acts(t) =>
             /\ task'[t].pc = "done" /\ task'[t].res # "Ok" =>
                   /\ task[t].pc \in PreInsert
                   /\ MapsUnchanged
             /\ task[t].pc \in PreInsert =>
                   /\ task[t].c \notin Reachable
                   /\ \A u \in Tasks \ {t} : task[u].c # task[t].c
                   /\ MapsUnchanged
             /\ task[t].pc = "connect_conns" =>
                   /\ Ready(task[t].c)
                   /\ conn[task[t].c].transport.sent = 3
                   /\ conn[task[t].c].request_id = 2
                   /\ task[t].val \in Catalogs
                   /\ connections' = Insert(connections, task[t].sid, task[t].c)
             /\ task'[t].pc = "done" /\ task'[t].res = "Ok" =>
                   task[t].pc = "connect_health"
      ]_vars
\* a connect has failed after the handshake, at tool discovery, and the
\* server it was for is in none of the maps
C1_Witness ==
    \E t \in Tasks :
        /\ task[t].pc = "done" /\ task[t].op = "connect"
        /\ task[t].res = "RpcError"
        /\ nconn = 1 /\ conn[1] = NoConn
        /\ connections = EmptyMap /\ tool_cache = EmptyMap /\ health = EmptyMap

\* C2: with one caller at a time, a disconnect of an id that connect had put
\* in the Registry ends Ok with the id in none of the three maps.
C2_ConnectThenDisconnect ==
    \A t \in Tasks :
        task[t].pc = "done" /\ task[t].op = "disconnect" /\ task[t].removed =>
            /\ task[t].res = "Ok"
            /\ ~Has(connections, task[t].sid)
            /\ ~Has(tool_cache, task[t].sid)
            /\ ~Has(health, task[t].sid)
\* connect("s1") has succeeded and the very next operation, disconnect("s1"),
\* is over
C2_Witness ==
    \E t \in Tasks :
        /\ task[t].pc = "done" /\ task[t].op = "disconnect" /\ task[t].removed
        /\ task[t].sid = "s1"
        /\ nops = 1
        /\ connections = EmptyMap /\ tool_cache = EmptyMap /\ health = EmptyMap

\* the methods that need a Ready connection
NeedReady == {"list_tools", "call_tool", "ping", "notify_sandbox_state"}
\* t's call has come to the transport slot (send_request or send_notification
\* has the lock) in this step
AtSlot(t) == task[t].pc \in {"sr_send", "sn_send"} /\ Acts(t)

\* C3: a Connection that is not Ready (no transport yet, handshake under way
\* or failed, shut down) rejects list_tools, call_tool, ping and
\* notify_sandbox_state with NotConnected and writes nothing to a transport.
C3_NotReadyRejects ==
    [][\A t \in Tasks :
          task[t].op \in NeedReady /\ AtSlot(t) /\ ~Ready(task[t].c) =>
             /\ task'[t].pc = "done" /\ task'[t].res = "NotConnected"
             /\ conn'[task[t].c].transport = conn[task[t].c].transport
      ]_vars
\* the handshake of a new Connection has failed and a ping that followed has
\* been written to the transport, its reply awaited
C3_Witness ==
    \E t \in Tasks :
        /\ task[t].op = "ping" /\ task[t].pc = "sr_recv"
        /\ \A u \in Tasks \ {t} : ~Busy(u)
        /\ LET c == task[t].c IN
              /\ ~conn[c].connected /\ ~conn[c].transport.initialized
              /\ ~conn[c].shutdown_called
              /\ conn[c].transport.sent = 2

\* C4: find_tool never returns a server id that is absent from the
\* connection map at the moment it returns.
C4_FindToolInConnections ==
    [][\A t \in Tasks :
          task'[t].op = "find_tool" /\ Acts(t) /\ task'[t].found # "none" =>
             Has(connections', task'[t].found)
      ]_vars
\* find_tool has returned "s1" while a disconnect of "s1" stands between its
\* removal from the connection map and its removal from the cache
C4_Witness ==
    \E t, u \in Tasks :
        /\ task[t].op = "find_tool" /\ task[t].pc = "done" /\ task[t].found = "s1"
        /\ task[u].op = "disconnect" /\ Busy(u) /\ task[u].sid = "s1"
        /\ ~Has(connections, "s1")
        /\ Has(tool_cache, "s1")

\* no initialize and no shutdown is in progress on connection c
Settled(c) ==
    \A t \in Tasks :
        Busy(t) /\ task[t].c = c =>
            task[t].op \notin {"initialize", "shutdown", "connect", "disconnect"}

\* C5: the connected flag of a Connection is true if and only if its slot
\* holds a transport on which the handshake has completed (looked at when no
\* initialize or shutdown is part-way through on it).
C5_ConnectedIffHandshaken ==
    \A c \in Conns :
        conn[c].live /\ Settled(c) =>
            (conn[c].connected <=>
                conn[c].transport.some /\ conn[c].transport.initialized)
\* nothing is in progress and a Connection says connected with an empty slot:
\* a shutdown ran between the reply to initialize and the store of the flag
C5_Witness ==
    \E c \in Conns :
        /\ conn[c].live /\ conn[c].connected /\ ~conn[c].transport.some
        /\ \A t \in Tasks : ~Busy(t)

\* C6: once shutdown has been called on a Connection its connected flag is
\* never true again and its transport slot is never refilled, whatever is
\* invoked on it later.
C6_ShutdownIrreversible ==
    [][\A c \in Conns :
          conn[c].live /\ conn[c].shutdown_called /\ conn'[c].live =>
             /\ ~conn'[c].connected
             /\ conn'[c].transport.some => conn[c].transport.some
      ]_vars
\* nothing is in progress and a Connection that was shut down is connected
\* again, on a new transport
C6_Witness ==
    \E c \in Conns :
        /\ conn[c].live /\ conn[c].shutdown_called
        /\ conn[c].connected /\ conn[c].transport.some /\ conn[c].transport.initialized
        /\ \A t \in Tasks : ~Busy(t)

\* the callers whose exchange on connection c is in flight: request written,
\* reply not yet read
InFlight(c) == {t \in Tasks : task[t].pc = "sr_recv" /\ task[t].c = c}

\* C7: on one Connection at most one exchange is in progress at a time, and
\* while one is, no other request or notification is written to its
\* transport, nor is the transport taken or replaced.
C7_SingleOutstanding ==
    [][\A c \in Conns :
          /\ \A t, u \in InFlight(c) : t = u
          /\ \A t, u \in InFlight(c)' : t = u
          /\ InFlight(c) # {} /\ conn'[c].live =>
                /\ conn'[c].transport.some
                /\ conn'[c].transport.sent = conn[c].transport.sent
      ]_vars
\* one caller's request is in flight and another caller stands at the lock
\* of the same connection with a notification to write
C7_Witness ==
    \E c \in Conns, t, u \in Tasks :
        /\ t \in InFlight(c)
        /\ task[u].pc = "sn_send" /\ task[u].c = c
        /\ conn[c].lock = t

\* the connections the Registry has made for server id s and not let go of:
\* the one in the map and those its connect calls are building
OfRegistry(s) ==
    {connections[x] : x \in DOMAIN connections \cap {s}}
    \cup {task[t].c : t \in {u \in Tasks : Busy(u) /\ task[u].op = "connect"
                                           /\ task[u].sid = s /\ task[u].c # 0}}
Live(c) == conn[c].live /\ conn[c].transport.some /\ conn[c].connected

\* C8: a server id has at most one live (transport present, connected)
\* Connection associated with the Registry, also when connect is called for
\* an id that is present and when two connects for one id run together.
C8_OneLivePerId ==
    \A s \in ServerIds : Cardinality({c \in OfRegistry(s) : Live(c)}) <= 1
\* connect("s1") on a Registry that has "s1" connected stands before its
\* insert: the connection in the map and the one just built are both live
C8_Witness ==
    \E t \in Tasks :
        /\ task[t].op = "connect" /\ task[t].pc = "connect_conns" /\ task[t].sid = "s1"
        /\ Has(connections, "s1") /\ connections["s1"] # task[t].c
        /\ Live(connections["s1"]) /\ Live(task[t].c)
        /\ \A u \in Tasks \ {t} : ~Busy(u)

\* C9: disconnect never fails visibly: whatever close does, every disconnect
\* that ends ends with Ok, having removed the id's tool-cache entry and then
\* its health entry.
C9_DisconnectNeverFails ==
    [][\A t \in Tasks :
          task[t].op = "disconnect" /\ Busy(t) /\ Acts(t) =>
             /\ task'[t].pc = "done" =>
                   /\ task[t].pc = "disc_health"
                   /\ task'[t].res = "Ok"
                   /\ ~Has(health', task[t].sid)
             /\ task[t].pc = "disc_cache" =>
                   /\ task'[t].pc = "disc_health"
                   /\ ~Has(tool_cache', task[t].sid)
             /\ task[t].pc = "sh_take" => task'[t].pc = "disc_cache"
      ]_vars
\* a disconnect that closed a transport is over
C9_Witness ==
    \E t \in Tasks :
        /\ task[t].op = "disconnect" /\ task[t].pc = "done" /\ task[t].removed
        /\ task[t].res = "Ok"
        /\ ~Has(tool_cache, task[t].sid) /\ ~Has(health, task[t].sid)

\* C10: with one caller at a time, disconnect of an id that is not in the
\* Registry changes none of the three maps at any of its steps and returns
\* Ok, so a second disconnect leaves what the first left.
C10_DisconnectIdempotent ==
    [][\A t \in Tasks :
          task'[t].op = "disconnect" /\ ~task'[t].removed /\ Acts(t) =>
             /\ MapsUnchanged
             /\ task'[t].pc = "done" => task'[t].res = "Ok"
             /\ ~Has(connections, task'[t].sid)
             /\ ~Has(tool_cache, task'[t].sid)
             /\ ~Has(health, task'[t].sid)
      ]_vars
\* the second operation, a disconnect of an id that no map holds, is over
C10_Witness ==
    \E t \in Tasks :
        /\ task[t].op = "disconnect" /\ task[t].pc = "done" /\ ~task[t].removed
        /\ task[t].res = "Ok"
        /\ nops = 2
        /\ connections = EmptyMap /\ tool_cache = EmptyMap /\ health = EmptyMap

\* C11: health_check never returns an error and writes, for every server of
\* the connection map, exactly one status: Disconnected when the connection
\* reported not connected, and then no ping is sent; Healthy when it
\* reported connected and its ping succeeded; Unhealthy when it reported
\* connected and its ping failed.
C11_HealthCheckStatuses ==
    [][\A t \in Tasks :
          task'[t].op = "health_check" /\ Acts(t) =>
             LET s == task'[t].sid
                 pinged == task[t].pc \in {"sr_send", "sr_recv"} IN
             /\ connections' = connections
             /\ ~Busy(t) => task'[t].todo = DOMAIN connections
             /\ task'[t].pc = "sr_send" =>
                   /\ s \in task'[t].todo
                   /\ conn[connections[s]].connected
             /\ task'[t].pc = "hc_write" /\ ~pinged =>
                   /\ s \in task'[t].todo
                   /\ ~conn[connections[s]].connected
                   /\ conn'[connections[s]] = conn[connections[s]]
                   /\ task'[t].res = "none"
             /\ task'[t].pc = "hc_write" /\ pinged => task'[t].res # "none"
             /\ task[t].pc = "hc_write" =>
                   /\ task[t].sid \in task[t].todo
                   /\ task'[t].todo = task[t].todo \ {task[t].sid}
                   /\ health' = Insert(health, task[t].sid,
                                       IF task[t].res = "none" THEN "Disconnected"
                                       ELSE IF task[t].res = "Ok" THEN "Healthy"
                                       ELSE "Unhealthy")
             /\ Busy(t) /\ task[t].pc # "hc_write" =>
                   /\ health' = health
                   /\ task'[t].todo = task[t].todo
             /\ task'[t].pc = "done" =>
                   /\ task'[t].res = "Ok"
                   /\ task'[t].todo = {}
      ]_vars
\* a sweep of two servers is over: the one that was shut down is
\* Disconnected, the one whose ping failed is Unhealthy
C11_Witness ==
    \E t \in Tasks :
        /\ task[t].op = "health_check" /\ task[t].pc = "done"
        /\ DOMAIN connections = {"s1", "s2"}
        /\ \E a, b \in ServerIds :
              /\ a # b
              /\ health = Insert(Insert(EmptyMap, a, "Unhealthy"), b, "Disconnected")
              /\ conn[connections[a]].connected
              /\ ~conn[connections[b]].connected

\* C12: the outcome of call_tool is determined by the reply alone: a reply
\* with a top-level error object gives RpcError with that object's code and
\* message; a reply whose result holds an embedded error field gives
\* ToolError; any other reply gives Ok with the result's content field.
C12_CallToolByReply ==
    \A t \in Tasks :
        response.to = t /\ task[t].op = "call_tool" /\ task[t].pc = "done" =>
            LET j == response.json IN
            IF j.error.kind = "object"
            THEN /\ task[t].res = "RpcError"
                 /\ response.out.code = j.error.code
                 /\ response.out.message = j.error.message
            ELSE IF j.result.kind = "object" /\ j.result.error # "absent"
            THEN task[t].res = "ToolError"
            ELSE /\ task[t].res = "Ok"
                 /\ response.out.content =
                       IF j.result.kind = "object" /\ j.result.content # "absent"
                       THEN j.result.content ELSE "null"
\* a reply with "error": null beside a result with content has been answered
\* with RpcError, code -1
C12_Witness ==
    \E t \in Tasks :
        /\ response.to = t /\ task[t].op = "call_tool" /\ task[t].pc = "done"
        /\ response.json.error.kind = "null"
        /\ response.json.result.kind = "object"
        /\ response.json.result.error = "absent"
        /\ response.json.result.content = "text"
        /\ task[t].res = "RpcError"
        /\ response.out.code = -1

\* C13: notify_sandbox_state attempts delivery to every connection in the
\* connection map: the map stays as it was found, each step of the broadcast
\* is one attempt on the connection of one entry not yet visited, a failed
\* attempt is followed by the next entry like a successful one, and the
\* broadcast ends, with Ok, only when no entry is left.
C13_NotifyBestEffort ==
    [][\A t \in Tasks :
          task'[t].op = "notify_all" /\ Acts(t) =>
             /\ connections' = connections
             /\ ~Busy(t) => task'[t].todo = DOMAIN connections
             /\ task[t].op = "notify_all" /\ task[t].pc = "sn_send" =>
                   /\ task[t].sid \in task[t].todo
                   /\ task[t].c = connections[task[t].sid]
                   /\ task'[t].todo = task[t].todo \ {task[t].sid}
                   /\ \/ conn' = conn
                      \/ /\ conn[task[t].c].transport.some
                         /\ conn' = [conn EXCEPT ![task[t].c].transport.sent = @ + 1]
             /\ task'[t].pc = "sn_send" =>
                   /\ task'[t].sid \in task'[t].todo
                   /\ task'[t].c = connections[task'[t].sid]
                   /\ task'[t].meth = "notifications/sandbox_state"
             /\ task'[t].pc \in {"sn_send", "done"}
             /\ task'[t].pc = "done" => task'[t].res = "Ok" /\ task'[t].todo = {}
      ]_vars
\* a broadcast over two servers has ended: one connection had no transport
\* and its attempt failed, the other was written to
C13_Witness ==
    \E t \in Tasks :
        /\ task[t].op = "notify_all" /\ task[t].pc = "done" /\ task[t].res = "Ok"
        /\ DOMAIN connections = {"s1", "s2"}
        /\ \E a, b \in DOMAIN connections :
              /\ a # b
              /\ ~conn[connections[a]].transport.some
              /\ conn[connections[b]].transport.sent = 4

\* C14: refresh_tools(id) on an absent id ends at once with ServerNotFound;
\* on a present id it lists the tools of the connection stored for the id,
\* and only a listing that succeeded is followed by a write of the cache,
\* which sets the id's entry to the catalog listed and returned and leaves
\* every other entry as it was; no other step of a refresh, and no refresh
\* that ends with an error, changes the cache.
C14_RefreshReplacesEntry ==
    [][\A t \in Tasks :
          task'[t].op = "refresh_tools" /\ Acts(t) =>
             LET sid == task'[t].sid IN
             /\ ~Busy(t) /\ ~Has(connections, sid) =>
                   task'[t].pc = "done" /\ task'[t].res = "ServerNotFound"
             /\ ~Busy(t) /\ Has(connections, sid) =>
                   /\ task'[t].pc = "sr_send" /\ task'[t].meth = "tools/list"
                   /\ task'[t].c = connections[sid]
             /\ task'[t].pc = "refresh_cache" =>
                   task[t].pc = "sr_recv" /\ task'[t].val \in Catalogs
             /\ task[t].pc = "refresh_cache" =>
                   /\ Has(tool_cache', sid)
                   /\ tool_cache'[sid] = task[t].val
                   /\ DOMAIN tool_cache' = DOMAIN tool_cache \cup {sid}
                   /\ \A s \in DOMAIN tool_cache \ {sid} : tool_cache'[s] = tool_cache[s]
                   /\ task'[t].pc = "done" /\ task'[t].res = "Ok"
                   /\ task'[t].val = task[t].val
             /\ task[t].pc # "refresh_cache" => tool_cache' = tool_cache
             /\ task'[t].pc = "done" /\ task'[t].res = "Ok" => task[t].pc = "refresh_cache"
      ]_vars
\* the second server, cached with two tools, was refreshed and listed one:
\* its entry is that one tool and the first server's entry is as it was
C14_Witness ==
    \E t \in Tasks :
        /\ task[t].op = "refresh_tools" /\ task[t].pc = "done" /\ task[t].res = "Ok"
        /\ task[t].sid = "s2" /\ task[t].val = {"add"}
        /\ Has(tool_cache, "s2") /\ tool_cache["s2"] = {"add"}
        /\ Has(tool_cache, "s1") /\ tool_cache["s1"] = {"add"}

\* the step is t's entry into send_request: the id is allocated in it
Allocates(t) == task'[t].pc = "sr_send" /\ task[t].pc # "sr_send"
\* the callers that hold a request id of connection c
Requesting(c) == {t \in Tasks : task[t].pc \in {"sr_send", "sr_recv"} /\ task[t].c = c}

\* C15: a request takes as its id the value of the connection's counter and
\* advances the counter by one; the counter starts at 0 and nothing else
\* advances or resets it (a notification takes no id); so the ids of one
\* connection are 0, 1, 2, ... in allocation order, and the requests in
\* progress on one connection have pairwise different ids below the counter.
C15_RequestIdsIncrease ==
    [][/\ \A t \in Tasks :
             Allocates(t) =>
                LET c == task'[t].c
                    before == IF conn[c].live THEN conn[c].request_id ELSE 0 IN
                /\ task'[t].rid = before
                /\ conn'[c].request_id = before + 1
       /\ \A c \in Conns :
             /\ conn'[c].live /\ ~conn[c].live =>
                   conn'[c].request_id = 0 \/ \E t \in Tasks : Allocates(t) /\ task'[t].c = c
             /\ conn[c].live /\ conn'[c].live /\ conn'[c].request_id # conn[c].request_id =>
                   \E t \in Tasks : Allocates(t) /\ task'[t].c = c
             /\ \A t, u \in Requesting(c)' :
                   /\ task'[t].rid < conn'[c].request_id
                   /\ t # u => task'[t].rid # task'[u].rid
       /\ \A t \in Tasks :
             task'[t].pc = "sn_send" /\ Acts(t) /\ task[t].pc # "sr_recv" =>
                \A c \in Conns :
                   conn[c].live /\ conn'[c].live => conn'[c].request_id = conn[c].request_id
      ]_vars
\* two callers hold the first two requests of one connection: their ids are
\* 0 and 1 and the counter is at 2
C15_Witness ==
    \E t, u \in Tasks : \E c \in Conns :
        /\ t # u
        /\ {t, u} \subseteq Requesting(c)
        /\ task[t].rid = 0 /\ task[u].rid = 1
        /\ conn[c].request_id = 2

\* the sweep of caller u has written the status of some entries of the map
\* and has others still to visit
Partial(u) ==
    /\ Busy(u) /\ task[u].op = "health_check"
    /\ task[u].todo # {}
    /\ task[u].todo # DOMAIN connections

\* C16: a health_check sweep exposes no partial results: server_health never
\* reads the health map while a sweep in progress has written the status of
\* some servers and not yet that of others.
C16_NoPartialSweep ==
    [][\A t \in Tasks :
          task'[t].op = "server_health" /\ Acts(t) => \A u \in Tasks : ~Partial(u)
      ]_vars
\* server_health("s1") returned the Unhealthy that a sweep in progress has
\* just written, while "s2", which the sweep has not come to, still has the
\* Healthy it had before the sweep
C16_Witness ==
    \E t, u \in Tasks :
        /\ task[t].op = "server_health" /\ task[t].pc = "done"
        /\ task[t].sid = "s1" /\ task[t].found = "Unhealthy"
        /\ Partial(u) /\ task[u].todo = {"s2"}
        /\ DOMAIN health = {"s1", "s2"}
        /\ health["s1"] = "Unhealthy" /\ health["s2"] = "Healthy"

\* the map locks caller t holds from its earlier steps: the read guard of the
\* connection map, alive for the whole of a loop over it
GuardsHeld(t) == IF t \in ReadGuards(task) THEN {"connections"} ELSE {}
\* the map lock the step of caller t at its position takes: the write lock
\* of the map it inserts into or removes from
LockTaken(t) ==
    CASE task[t].pc = "connect_conns" -> {"connections"}
      [] task[t].pc \in {"connect_cache", "disc_cache", "refresh_cache"} -> {"tool_cache"}
      [] task[t].pc \in {"connect_health", "disc_health", "hc_write"} -> {"health"}
      [] OTHER -> {}

\* C17: no Registry operation holds the lock of more than one of the three
\* maps at a time: in every step of a caller, the lock the step takes and
\* the locks the caller holds already are locks of one map.
C17_OneMapLock ==
    [][\A t \in Tasks :
          Acts(t) => \A a, b \in GuardsHeld(t) \cup LockTaken(t) : a = b
      ]_vars
\* a sweep holds the read guard of the connection map and has written, under
\* the write lock of the health map, the status of the first server
C17_Witness ==
    \E t \in Tasks :
        /\ task[t].op = "health_check"
        /\ GuardsHeld(t) = {"connections"}
        /\ task[t].todo = {"s2"}
        /\ Has(health, "s1") /\ health["s1"] = "Disconnected"

\* C18: when the initialized notification of an initialize cannot be sent,
\* initialize returns the error and undoes nothing: the step in which the
\* send fails leaves the connected flag, the recorded ServerInfo and the
\* transport of the Connection as they were (for as long as the Connection
\* exists: the one connect built goes with the error).
C18_NoRollback ==
    [][\A t \in Tasks :
          /\ task[t].pc = "sn_send" /\ task[t].meth = "notifications/initialized"
          /\ Acts(t) /\ task'[t].pc = "done" /\ task'[t].res # "Ok"
          => LET c == task[t].c IN
             /\ c \in held => conn'[c].live
             /\ conn'[c].live =>
                   /\ conn'[c].connected = conn[c].connected
                   /\ conn'[c].server_info = conn[c].server_info
                   /\ conn'[c].transport = conn[c].transport
      ]_vars
\* initialize on the application's connection has returned a transport
\* error after the one frame of its request was written and answered: the
\* connection is Ready
C18_Witness ==
    \E t \in Tasks : \E c \in held :
        /\ task[t].op = "initialize" /\ task[t].pc = "done"
        /\ task[t].res = "TransportError"
        /\ Ready(c)
        /\ conn[c].transport.sent = 1 /\ conn[c].request_id = 1

\* no caller has an operation in progress
Quiescent == \A t \in Tasks : ~Busy(t)

\* C19: whenever no Registry operation is in progress, the connection map,
\* the tool cache and the health map have the same key set.
C19_SameKeySets ==
    Quiescent =>
        /\ DOMAIN tool_cache = DOMAIN connections
        /\ DOMAIN health = DOMAIN connections
\* a connect and a disconnect of "s1" have both returned Ok: the connection
\* map is empty, the tool cache and the health map have an entry for "s1"
C19_Witness ==
    /\ Quiescent
    /\ \E t, u \in Tasks :
          /\ task[t].op = "connect" /\ task[t].sid = "s1" /\ task[t].res = "Ok"
          /\ task[u].op = "disconnect" /\ task[u].sid = "s1" /\ task[u].res = "Ok"
    /\ connections = EmptyMap
    /\ DOMAIN tool_cache = {"s1"}
    /\ DOMAIN health = {"s1"}

\* C20: whenever no Registry operation is in progress, the catalog cached
\* for a server id that has a connection stored is one of the catalogs that
\* were listed from that connection.
C20_CacheFromStored ==
    Quiescent =>
        \A s \in DOMAIN tool_cache \cap DOMAIN connections :
            tool_cache[s] \in conn[connections[s]].listed
\* two connects of "s1" have returned Ok: the connection stored listed two
\* tools and no other catalog, and the catalog cached has one
C20_Witness ==
    /\ Quiescent
    /\ \A t \in Tasks : task[t].op = "connect" /\ task[t].sid = "s1" /\ task[t].res = "Ok"
    /\ Has(connections, "s1") /\ Has(tool_cache, "s1")
    /\ conn[connections["s1"]].listed = {{"add", "echo"}}
    /\ tool_cache["s1"] = {"add"}

\* the step is the write of t's request to the transport
Writes(t) == task[t].pc = "sr_send" /\ task'[t].pc = "sr_recv"

\* C21: on one Connection requests reach the transport in increasing id
\* order: a request that is written has an id above the ids of all requests
\* written on the Connection before it.
C21_WrittenInIdOrder ==
    [][\A t \in Tasks :
          Writes(t) => task[t].rid > conn[task[t].c].wrote
      ]_vars
\* a caller has just written its request with id 2 on a connection where the
\* request with id 3 was written before
C21_Witness ==
    \E t \in Tasks :
        /\ task[t].pc = "sr_recv"
        /\ task[t].rid = 2
        /\ conn[task[t].c].lock = t
        /\ conn[task[t].c].wrote = 3

\* the step is t's read of a reply line from the transport
Reads(t) == task[t].pc = "sr_recv" /\ task'[t].pc # "sr_recv"

\* C22: with a server that answers every request once, in the order
\* received, and writes nothing else, the line a request reads as its reply
\* is the reply to that request's own id, and the read takes that line and
\* no other off the transport, whatever requests and notifications of other
\* callers overlap with it on the Connection.
C22_OwnReply ==
    [][\A t \in Tasks :
          Reads(t) =>
              LET tr == conn[task[t].c].transport IN
              /\ tr.pipe # <<>>
              /\ NextLine(tr) = task[t].rid
              /\ conn'[task[t].c].live =>
                     conn'[task[t].c].transport.pipe = Tail(tr.pipe)
      ]_vars
\* a caller's refresh_tools has returned Ok with the reply to the request
\* with id 3, while on the same connection the caller that got id 2 has
\* written its request after it and stands before its read with its own
\* reply next in line
C22_Witness ==
    \E t, u \in Tasks :
        /\ t # u
        /\ task[t].pc = "done" /\ task[t].op = "refresh_tools" /\ task[t].res = "Ok"
        /\ task[u].pc = "sr_recv" /\ task[u].rid = 2
        /\ conn[task[u].c].lock = u
        /\ conn[task[u].c].id = task[t].sid
        /\ conn[task[u].c].wrote = 3
        /\ conn[task[u].c].transport.pipe = <<2>>

\* every shutdown called on connection c so far has taken what the slot held
Taken(c) ==
    /\ conn[c].shutdown_called
    /\ \A t \in Tasks : ~(task[t].pc = "sh_take" /\ task[t].c = c)
\* the step is t's shutdown taking the transport out of the slot
Takes(t) == task[t].pc = "sh_take" /\ Acts(t)
\* the step is the start of t's exchange: it has the lock and looks into the
\* slot
Starts(t) == task[t].pc \in {"sr_send", "sn_send"} /\ Acts(t)
\* while an exchange is in flight the transport stays in the slot, and a
\* shutdown takes it only with the lock free
ShutdownWaits ==
    /\ \A c \in Conns :
          InFlight(c) # {} /\ conn'[c].live => conn'[c].transport.some
    /\ \A t \in Tasks :
          Takes(t) => InFlight(task[t].c) = {} /\ conn[task[t].c].lock = 0
\* the first step of a shutdown clears the connected flag
ShutdownClearsFirst ==
    \A t \in Tasks :
        task[t].pc # "sh_take" /\ task'[t].pc = "sh_take" =>
            ~conn'[task'[t].c].connected
\* an exchange that starts when the transport has been taken finds the slot
\* empty: it writes nothing and waits for no reply
LateExchangeFails ==
    \A t \in Tasks :
        Starts(t) /\ Taken(task[t].c) =>
            /\ ~conn[task[t].c].transport.some
            /\ task'[t].pc # "sr_recv"
            /\ conn'[task[t].c].live =>
                   conn'[task[t].c].transport.sent = conn[task[t].c].transport.sent

\* C23: shutdown does not close or remove the transport while an exchange is
\* in flight on the Connection: its first step clears the connected flag, it
\* takes the transport only when no exchange is in flight, and every
\* exchange that starts after the transport was taken fails with
\* NotConnected.
C23_ShutdownDrains ==
    [][ShutdownWaits /\ ShutdownClearsFirst /\ LateExchangeFails]_vars
\* a Connection that had answered requests 0 and 1 was shut down, the
\* shutdown has taken its transport, and a later initialize on the same
\* object has its request with id 2 in flight on a new transport
C23_Witness ==
    \E t \in Tasks :
        LET c == task[t].c IN
        /\ task[t].pc = "sr_recv" /\ task[t].op = "initialize" /\ task[t].rid = 2
        /\ Taken(c)
        /\ conn[c].lock = t
        /\ conn[c].transport.some /\ conn[c].transport.sent = 1
        /\ conn[c].transport.pipe = <<2>>

====
